---- MODULE Spec2Model ----
(***************************************************************************)
(* Model of the live telemetry client of 1stake0001/app                    *)
(* (src/frontend/src/App.js): the WebSocket connection manager written as  *)
(* React hooks (connectWebSocket, toggleListening, the connect/cleanup     *)
(* effect) and the aggregation state (stats, allFlows) that the message    *)
(* handler maintains.                                                      *)
(*                                                                         *)
(* One action is one browser task: the handler that runs, the state        *)
(* updates it queues, the render React commits for them and the effect     *)
(* that render re-runs.  Closures are modelled by what they capture: a     *)
(* socket's handlers and a reconnect timer see the isListening and         *)
(* connectionAttempts of the render that created connectWebSocket, and the *)
(* effect cleanup sees the ws of the render in which the effect last ran.  *)
(***************************************************************************)
EXTENDS Integers, Sequences, FiniteSets, Bags, TLC

\* ---------------------------------------------------------------- bounds
MaxSockets == 3        \* Spec: WebSocket objects constructed in one behaviour
MaxAttempts == 3       \* Spec: largest value the retry counter is driven to
MaxMsgs == 1           \* Spec: inbound messages in one behaviour
MaxClears == 1         \* Spec: clear requests in one behaviour
MaxConnSockets == 7    \* SpecConn: WebSocket objects constructed in one behaviour
MaxConnAttempts == 5   \* SpecConn: largest value the retry counter is driven to
MaxRetrySockets == 9   \* SpecRetry: WebSocket objects constructed in one behaviour
MaxRetryAttempts == 4  \* SpecRetry: largest value the retry counter is driven to
MaxEvents == 106       \* SpecIngest: inbound messages in one behaviour
FreeLen == 2           \* SpecIngest: length of the freely chosen stream prefix
MaxStoreMsgs == 3      \* SpecStore: inbound messages in one behaviour
MaxStoreClears == 1    \* SpecStore: clear requests in one behaviour
MaxSnapMsgs == 3        \* SpecSnapshot: messages received in one behaviour
MaxSnapClears == 1      \* SpecSnapshot: clear requests issued in one behaviour
MaxAdminSockets == 3    \* SpecAdmin: WebSocket objects constructed in one behaviour
MaxAdminAttempts == 2   \* SpecAdmin: largest value the retry counter is driven to
MaxAdminMsgs == 1       \* SpecAdmin: messages received in one behaviour
MaxAdminClears == 1     \* SpecAdmin: clear requests issued in one behaviour
MaxMocks == 1           \* SpecAdmin: generate-sample-data requests pending at once
MaxTeardownSockets == 4   \* SpecTeardown: WebSocket objects constructed in one behaviour
MaxTeardownAttempts == 2  \* SpecTeardown: largest value the retry counter is driven to
MaxFixedSockets == 8    \* SpecFixed: WebSocket objects constructed in one behaviour
MaxFixedFailures == 7   \* SpecFixed: attempts failed in a row in one behaviour
MaxCastSockets == 4     \* SpecBroadcast: WebSocket objects constructed in one behaviour
MaxCastAttempts == 2    \* SpecBroadcast: largest value the retry counter is driven to
MaxSent == 2            \* SpecBroadcast: events the backend emits in one behaviour

\* ------------------------------------------------------ program constants
FlowCap == 100         \* .slice(0, 100)
LeakCap == 50          \* .slice(0, 50)
MaxRetries == 5        \* connectionAttempts < 5
BaseDelay == 1000      \* 1000 * Math.pow(2, connectionAttempts)
MaxDelay == 30000      \* Math.min(..., 30000)
FixedDelay == 3000     \* part_000: setTimeout(connectWebSocket, 3000)

VARIABLES
  mounted,             \* the component has mounted (its effect has run)
  isConnected,         \* useState(false)
  isListening,         \* useState(true)
  stats,               \* useState({totalFlows, totalLeaks, recentFlows, privacyLeaks})
  allFlows,            \* useState([])
  ws,                  \* useState(null): 0 is null, else an index into sockets
  connectionAttempts,  \* useState(0)
  lastUpdate,          \* useState(null): 0 is null, else the logical time of the update
  sockets,             \* every WebSocket constructed so far, in construction order
  timers,              \* bag of pending reconnect timers (setTimeout callbacks)
  effectWs,            \* the ws captured by the cleanup of the effect that ran last
  clearPending,        \* clear requests whose response has not arrived
  clearsSent,          \* clear requests issued so far
  received,            \* wire log: every message delivered to onmessage, in order
  firstAttempt,        \* the socket of the attempt made on mount or resume (0: none)
  failedInARow,        \* reconnect attempts that closed unopened since the last open/resume
  pausedFrom,          \* while paused: what the connection was when the user paused
  lastStep,            \* what the last step did
  mockPending,         \* generate-sample-data requests whose response has not arrived
  sent,                \* events the backend has emitted so far
  inflight             \* <<socket, n>>: event n is on its way to that connection

vars == <<mounted, isConnected, isListening, stats, allFlows, ws, connectionAttempts,
          lastUpdate, sockets, timers, effectWs, clearPending, clearsSent, received,
          firstAttempt, failedInARow, pausedFrom, lastStep, mockPending, sent, inflight>>

connVars == <<mounted, isConnected, isListening, ws, connectionAttempts, sockets,
              timers, effectWs, firstAttempt, failedInARow, pausedFrom>>
storeVars == <<stats, allFlows, lastUpdate, received>>
clearVars == <<clearPending, clearsSent>>
envVars == <<mockPending, sent, inflight>>

\* ------------------------------------------------------------- sequences
Min(a, b) == IF a <= b THEN a ELSE b

\* Array.prototype.slice(0, n)
Slice0(s, n) == SubSeq(s, 1, Min(Len(s), n))

Reverse(s) == [i \in 1..Len(s) |-> s[Len(s) + 1 - i]]

\* ------------------------------------------------------------ flow values
Absent == "<absent>"   \* the property is missing from the object (undefined)

\* what reading a list property yields when the object does not carry it
\* (undefined): a one-element sequence no list of flows is equal to
Undefined == <<[undefined |-> TRUE]>>

\* JavaScript truthiness of a leakType: undefined and "" are falsy
Truthy(v) == v \notin {Absent, ""}

EmptyStats == [totalFlows |-> 0, totalLeaks |-> 0, recentFlows |-> <<>>, privacyLeaks |-> <<>>]

\* ------------------------------------------------------------- WebSocket
\* new WebSocket(url) inside a connectWebSocket that captured (cL, cA): the
\* socket's onclose handler reads these captured values, never the current state
NewSocket(cL, cA) == [readyState |-> "connecting", cL |-> cL, cA |-> cA]

Live(s) == s.readyState \in {"connecting", "open"}

\* WebSocket.close(): a connecting or open socket starts closing and its close
\* event is delivered later; on a closing or closed socket it does nothing.
\* i = 0 is the null reference guarded by `if (ws)`.
CloseSocket(socks, i) ==
  IF i # 0 /\ Live(socks[i]) THEN [socks EXCEPT ![i].readyState = "closing"] ELSE socks

\* connectWebSocket as created by a render with isListening = cL and
\* connectionAttempts = cA (the useCallback dependencies): the sockets after the call
ConnectWebSocket(cL, cA, socks) ==
  IF ~cL THEN socks ELSE Append(socks, NewSocket(cL, cA))

\* the value the call passes to setWs, if it makes one (cur is the queued value)
ConnectSetsWs(cL, socks, cur) == IF ~cL THEN cur ELSE Len(socks) + 1

\* onclose: `if (isListening && connectionAttempts < 5)` over the captured values
ReconnectGuard(cL, cA) == cL /\ cA < MaxRetries

\* Math.min(1000 * Math.pow(2, connectionAttempts), 30000)
ReconnectDelay(cA) == Min(BaseDelay * 2^cA, MaxDelay)

\* The effect of useEffect(..., [connectWebSocket, isListening]) re-running in a
\* render with isListening = L, connectionAttempts = A and ws = wsR: first the
\* cleanup of the previous run closes the ws that run had captured, then the body
\* connects when listening.  The new cleanup captures wsR.
RunEffect(L, A, wsR, socks) ==
  LET cleaned == CloseSocket(socks, effectWs)
  IN [sockets  |-> IF L THEN ConnectWebSocket(L, A, cleaned) ELSE cleaned,
      ws       |-> IF L THEN ConnectSetsWs(L, cleaned, wsR) ELSE wsR,
      effectWs |-> wsR]

\* The render React commits after a handler left isListening = L,
\* connectionAttempts = A, ws = wsR: connectWebSocket is a new function exactly
\* when one of its dependencies changed, and only then does the effect re-run.
CommitRender(L, A, wsR, socks) ==
  IF <<L, A>> # <<isListening, connectionAttempts>>
  THEN RunEffect(L, A, wsR, socks)
  ELSE [sockets |-> socks, ws |-> wsR, effectWs |-> effectWs]

Committed(L, A, r) ==
  /\ isListening' = L
  /\ connectionAttempts' = A
  /\ sockets' = r.sockets
  /\ ws' = r.ws
  /\ effectWs' = r.effectWs

\* ------------------------------------------------------ aggregation store
\* a flow object; method stands for the descriptive fields (method, host, url,
\* status), which the client stores and never reads when aggregating
Flow(n, lt, ts) == [flowId |-> n, timestamp |-> ts, leakType |-> lt, method |-> "GET"]

\* the same flow object without its descriptive fields
Incomplete(f) == [f EXCEPT !.method = Absent]

\* variants of the two updaters with one plausible slip each
NextAllFlows_Appends(prev, newFlow) == Slice0(prev \o <<newFlow>>, FlowCap)
NextAllFlows_OffByOne(prev, newFlow) == Slice0(<<newFlow>> \o prev, FlowCap - 1)

\* an updater written against the allFlows captured when the socket was
\* created (empty) instead of the functional form prev => ...
NextAllFlows_FromCapturedState(prev, newFlow) == Slice0(<<newFlow>>, FlowCap)

\* setAllFlows(prev => [newFlow, ...prev].slice(0, 100))
NextAllFlows(prev, newFlow) == Slice0(<<newFlow>> \o prev, FlowCap)

NextStats_UncappedLeaks(prev, newFlow) ==
  [prev EXCEPT
     !.totalFlows = @ + 1,
     !.totalLeaks = IF Truthy(newFlow.leakType) THEN @ + 1 ELSE @,
     !.privacyLeaks = IF Truthy(newFlow.leakType) THEN <<newFlow>> \o @ ELSE @]

NextStats_CountsEmptyLeakType(prev, newFlow) ==
  [prev EXCEPT
     !.totalFlows = @ + 1,
     !.totalLeaks = IF newFlow.leakType # Absent THEN @ + 1 ELSE @,
     !.privacyLeaks = IF Truthy(newFlow.leakType)
                      THEN Slice0(<<newFlow>> \o @, LeakCap)
                      ELSE @]

\* an updater that would restart the leak count at a flow without a leakType
NextStats_ForgetsLeakCount(prev, newFlow) ==
  [prev EXCEPT
     !.totalFlows = @ + 1,
     !.totalLeaks = IF Truthy(newFlow.leakType) THEN @ + 1 ELSE 0,
     !.privacyLeaks = IF Truthy(newFlow.leakType)
                      THEN Slice0(<<newFlow>> \o @, LeakCap)
                      ELSE @]

\* setStats(prev => ({...prev, totalFlows: ..., totalLeaks: ..., privacyLeaks: ...}))
NextStats(prev, newFlow) ==
  [prev EXCEPT
     !.totalFlows = @ + 1,
     !.totalLeaks = IF Truthy(newFlow.leakType) THEN @ + 1 ELSE @,
     !.privacyLeaks = IF Truthy(newFlow.leakType)
                      THEN Slice0(<<newFlow>> \o @, LeakCap)
                      ELSE @]

\* setStats(message.data)
SnapshotStats(data) == data

SnapshotAllFlows_Merges(data) == Slice0(data.recentFlows \o allFlows, FlowCap)

\* setAllFlows(message.data.recentFlows || [])
SnapshotAllFlows(data) == IF data.recentFlows = Undefined THEN <<>> ELSE data.recentFlows

\* the body of onmessage after JSON.parse: the next stats and allFlows
HandleMessage(msg) ==
  IF msg.type = "stats_update"
  THEN [stats |-> SnapshotStats(msg.data), allFlows |-> SnapshotAllFlows(msg.data)]
  ELSE IF msg.type = "new_traffic"
  THEN [stats |-> NextStats(stats, msg.data), allFlows |-> NextAllFlows(allFlows, msg.data)]
  ELSE [stats |-> stats, allFlows |-> allFlows]

\* the (stats, allFlows) pair as it stands after each of the two store setters
\* onmessage calls, in call order: setStats then setAllFlows (stats_update),
\* setAllFlows then setStats (new_traffic); no store setter for another type
SetterStates(msg) ==
  LET after == HandleMessage(msg)
  IN IF msg.type = "stats_update"
     THEN <<[stats |-> after.stats, allFlows |-> allFlows], after>>
     ELSE IF msg.type = "new_traffic"
     THEN <<[stats |-> stats, allFlows |-> after.allFlows], after>>
     ELSE <<>>

\* a root that would render after every setter called outside a React event
Batch_PerSetter(states) == states

\* the renders the presentation layer is shown for the updates one handler
\* queued: they are applied together, in one render
Batch(states) == IF states = <<>> THEN <<>> ELSE <<states[Len(states)]>>

\* [newFlow, ...prev.privacyLeaks] with prev.privacyLeaks undefined: the spread
\* throws a TypeError.  The updater runs while React renders, outside the try
\* block of onmessage.
UpdaterThrows(msg) ==
  /\ msg.json
  /\ msg.type = "new_traffic"
  /\ Truthy(msg.data.leakType)
  /\ stats.privacyLeaks = Undefined

\* clearData after `response.ok`
ClearedStats_KeepsLeakCount == [stats EXCEPT !.totalFlows = 0, !.recentFlows = <<>>, !.privacyLeaks = <<>>]
ClearedStats == [totalFlows |-> 0, totalLeaks |-> 0, recentFlows |-> <<>>, privacyLeaks |-> <<>>]
ClearedAllFlows_Kept == allFlows
ClearedAllFlows == <<>>

\* ------------------------------------------------------------------ Init
\* the useState initial values, before the component's effect has run
Init ==
  /\ mounted = FALSE
  /\ isConnected = FALSE
  /\ isListening = TRUE
  /\ stats = EmptyStats
  /\ allFlows = <<>>
  /\ ws = 0
  /\ connectionAttempts = 0
  /\ lastUpdate = 0
  /\ sockets = <<>>
  /\ timers = EmptyBag
  /\ effectWs = 0
  /\ clearPending = 0
  /\ clearsSent = 0
  /\ received = <<>>
  /\ firstAttempt = 0
  /\ failedInARow = 0
  /\ pausedFrom = "none"
  /\ mockPending = 0
  /\ sent = 0
  /\ inflight = {}
  /\ lastStep = [kind |-> "init"]

\* --------------------------------------------------- connection manager
\* first run of the effect: `if (isListening) connectWebSocket()`
Mount ==
  /\ ~mounted
  /\ mounted' = TRUE
  /\ Committed(isListening, connectionAttempts,
               RunEffect(isListening, connectionAttempts, ws, sockets))
  /\ firstAttempt' = ws'
  /\ lastStep' = [kind |-> "mount"]
  /\ UNCHANGED <<isConnected, timers, failedInARow, pausedFrom>>
  /\ UNCHANGED <<storeVars, clearVars>>
  /\ UNCHANGED envVars

\* an onopen that would only raise the indicator
OnOpen_KeepsCounter(i) ==
  /\ sockets[i].readyState = "connecting"
  /\ isConnected' = TRUE
  /\ sockets' = [sockets EXCEPT ![i].readyState = "open"]
  /\ failedInARow' = 0
  /\ lastStep' = [kind |-> "open", attempts |-> connectionAttempts]
  /\ UNCHANGED <<mounted, isListening, ws, connectionAttempts, effectWs, timers,
                 firstAttempt, pausedFrom>>
  /\ UNCHANGED <<storeVars, clearVars>>
  /\ UNCHANGED envVars

\* websocket.onopen: setIsConnected(true); setConnectionAttempts(0)
OnOpen(i) ==
  /\ sockets[i].readyState = "connecting"
  /\ isConnected' = TRUE
  /\ Committed(isListening, 0,
               CommitRender(isListening, 0, ws, [sockets EXCEPT ![i].readyState = "open"]))
  /\ failedInARow' = 0
  /\ lastStep' = [kind |-> "open", attempts |-> connectionAttempts]
  /\ UNCHANGED <<mounted, timers, firstAttempt, pausedFrom>>
  /\ UNCHANGED <<storeVars, clearVars>>
  /\ UNCHANGED envVars

\* The close event of socket i, after the transport failed or closed (the socket
\* was connecting or open; onerror, which precedes it on a failure, also only
\* calls setIsConnected(false)) or after close() was called on it (closing).
\* websocket.onclose: setIsConnected(false), then the reconnect timer.
OnClose(i) ==
  /\ sockets[i].readyState \in {"connecting", "open", "closing"}
  /\ isConnected' = FALSE
  /\ timers' = IF ReconnectGuard(sockets[i].cL, sockets[i].cA)
               THEN timers (+) SetToBag({[cL |-> sockets[i].cL, cA |-> sockets[i].cA,
                                          delay |-> ReconnectDelay(sockets[i].cA)]})
               ELSE timers
  /\ Committed(isListening, connectionAttempts,
               CommitRender(isListening, connectionAttempts, ws,
                            [sockets EXCEPT ![i].readyState = "closed"]))
  /\ failedInARow' = IF sockets[i].readyState = "connecting" /\ i # firstAttempt
                     THEN failedInARow + 1 ELSE failedInARow
  /\ lastStep' = [kind |-> "close"]
  /\ UNCHANGED <<mounted, firstAttempt, pausedFrom>>
  /\ UNCHANGED <<storeVars, clearVars>>
  /\ UNCHANGED envVars

\* The setTimeout callback of onclose, created by the connectWebSocket that
\* captured (t.cL, t.cA): setConnectionAttempts(prev => prev + 1); connectWebSocket()
TimerFire(t) ==
  /\ BagIn(t, timers)
  /\ timers' = timers (-) SetToBag({t})
  /\ LET socksH == ConnectWebSocket(t.cL, t.cA, sockets)
         wsH == ConnectSetsWs(t.cL, sockets, ws)
     IN Committed(isListening, connectionAttempts + 1,
                  CommitRender(isListening, connectionAttempts + 1, wsH, socksH))
  /\ lastStep' = [kind |-> "timer"]
  /\ UNCHANGED <<mounted, isConnected, firstAttempt, failedInARow, pausedFrom>>
  /\ UNCHANGED <<storeVars, clearVars>>
  /\ UNCHANGED envVars

\* toggleListening while listening: newListening = false;
\* `if (!newListening && ws) { ws.close(); setWs(null); setIsConnected(false) }`
Pause ==
  /\ mounted
  /\ isListening
  /\ isConnected' = IF ws # 0 THEN FALSE ELSE isConnected
  /\ Committed(FALSE, connectionAttempts,
               CommitRender(FALSE, connectionAttempts, 0, CloseSocket(sockets, ws)))
  /\ pausedFrom' = IF ws = 0 THEN "disconnected"
                   ELSE IF sockets[ws].readyState = "connecting" THEN "connecting"
                   ELSE IF sockets[ws].readyState = "open" THEN "connected"
                   ELSE "disconnected"
  /\ lastStep' = [kind |-> "pause"]
  /\ UNCHANGED <<mounted, timers, firstAttempt, failedInARow>>
  /\ UNCHANGED <<storeVars, clearVars>>
  /\ UNCHANGED envVars

\* a resume that would leave the retry counter where the pause found it
Resume_KeepsCounter ==
  /\ mounted
  /\ ~isListening
  /\ LET socksH == ConnectWebSocket(isListening, connectionAttempts, sockets)
         wsH == ConnectSetsWs(isListening, sockets, ws)
     IN Committed(TRUE, connectionAttempts,
                  CommitRender(TRUE, connectionAttempts, wsH, socksH))
  /\ firstAttempt' = ws'
  /\ failedInARow' = 0
  /\ pausedFrom' = "none"
  /\ lastStep' = [kind |-> "resume", attempts |-> connectionAttempts,
                  sockets |-> Len(sockets)]
  /\ UNCHANGED <<mounted, isConnected, timers>>
  /\ UNCHANGED <<storeVars, clearVars>>
  /\ UNCHANGED envVars

\* toggleListening while paused: newListening = true;
\* setConnectionAttempts(0); connectWebSocket() -- the connectWebSocket of the
\* paused render, which captured isListening = false
Resume ==
  /\ mounted
  /\ ~isListening
  /\ LET socksH == ConnectWebSocket(isListening, connectionAttempts, sockets)
         wsH == ConnectSetsWs(isListening, sockets, ws)
     IN Committed(TRUE, 0, CommitRender(TRUE, 0, wsH, socksH))
  /\ firstAttempt' = ws'
  /\ failedInARow' = 0
  /\ pausedFrom' = "none"
  /\ lastStep' = [kind |-> "resume", attempts |-> connectionAttempts,
                  sockets |-> Len(sockets)]
  /\ UNCHANGED <<mounted, isConnected, timers>>
  /\ UNCHANGED <<storeVars, clearVars>>
  /\ UNCHANGED envVars

\* ---------------------------------------------------------------- teardown
\* The component unmounts: React runs the cleanup of the effect that ran last,
\* `if (ws) ws.close()` over the ws that run captured.  Sockets and timers
\* outlive the component; from then on the setters their handlers call do nothing.
Unmount ==
  /\ mounted
  /\ mounted' = FALSE
  /\ sockets' = CloseSocket(sockets, effectWs)
  /\ lastStep' = [kind |-> "unmount"]
  /\ UNCHANGED <<isConnected, isListening, ws, connectionAttempts, timers, effectWs,
                 firstAttempt, failedInARow, pausedFrom>>
  /\ UNCHANGED <<storeVars, clearVars, envVars>>

\* websocket.onopen after the unmount: both setters are no-ops
OnOpenUnmounted(i) ==
  /\ ~mounted
  /\ sockets[i].readyState = "connecting"
  /\ sockets' = [sockets EXCEPT ![i].readyState = "open"]
  /\ lastStep' = [kind |-> "open_unmounted"]
  /\ UNCHANGED <<mounted, isConnected, isListening, ws, connectionAttempts, timers,
                 effectWs, firstAttempt, failedInARow, pausedFrom>>
  /\ UNCHANGED <<storeVars, clearVars, envVars>>

\* websocket.onclose after the unmount: setIsConnected is a no-op, the captured
\* guard and the setTimeout work as before
OnCloseUnmounted(i) ==
  /\ ~mounted
  /\ sockets[i].readyState \in {"connecting", "open", "closing"}
  /\ sockets' = [sockets EXCEPT ![i].readyState = "closed"]
  /\ timers' = IF ReconnectGuard(sockets[i].cL, sockets[i].cA)
               THEN timers (+) SetToBag({[cL |-> sockets[i].cL, cA |-> sockets[i].cA,
                                          delay |-> ReconnectDelay(sockets[i].cA)]})
               ELSE timers
  /\ lastStep' = [kind |-> "close_unmounted"]
  /\ UNCHANGED <<mounted, isConnected, isListening, ws, connectionAttempts, effectWs,
                 firstAttempt, failedInARow, pausedFrom>>
  /\ UNCHANGED <<storeVars, clearVars, envVars>>

\* the reconnect timer after the unmount: setConnectionAttempts is a no-op,
\* connectWebSocket() constructs a socket all the same and setWs is a no-op
TimerFireUnmounted(t) ==
  /\ ~mounted
  /\ BagIn(t, timers)
  /\ timers' = timers (-) SetToBag({t})
  /\ sockets' = ConnectWebSocket(t.cL, t.cA, sockets)
  /\ lastStep' = [kind |-> "timer_unmounted"]
  /\ UNCHANGED <<mounted, isConnected, isListening, ws, connectionAttempts, effectWs,
                 firstAttempt, failedInARow, pausedFrom>>
  /\ UNCHANGED <<storeVars, clearVars, envVars>>

\* ------------------------------------------- the fixed-delay variant
\* part_000: connectWebSocket has no dependencies and no guard, the effect runs
\* once, and a reconnect is scheduled by onclose and by the catch around
\* `new WebSocket`, always after 3000 ms.
FixedSocket == [readyState |-> "connecting"]
FixedTimer == [delay |-> FixedDelay]

\* connectWebSocket(): the constructor returns (constructed) or throws, and the
\* catch then calls setIsConnected(false) and setTimeout(connectWebSocket, 3000)
FixedConnect(constructed, pending) ==
  /\ sockets' = IF constructed THEN Append(sockets, FixedSocket) ELSE sockets
  /\ ws' = IF constructed THEN Len(sockets) + 1 ELSE ws
  /\ isConnected' = IF constructed THEN isConnected ELSE FALSE
  /\ timers' = IF constructed THEN pending ELSE pending (+) SetToBag({FixedTimer})
  /\ failedInARow' = IF constructed THEN failedInARow ELSE failedInARow + 1

\* the effect: connectWebSocket()
FixedMount(constructed) ==
  /\ ~mounted
  /\ lastStep.kind = "init"
  /\ mounted' = TRUE
  /\ FixedConnect(constructed, timers)
  /\ lastStep' = [kind |-> "fixed_mount", constructed |-> constructed]
  /\ UNCHANGED <<isListening, connectionAttempts, effectWs, firstAttempt, pausedFrom>>
  /\ UNCHANGED <<storeVars, clearVars, envVars>>

\* websocket.onopen: setIsConnected(true)
FixedOnOpen(i) ==
  /\ sockets[i].readyState = "connecting"
  /\ sockets' = [sockets EXCEPT ![i].readyState = "open"]
  /\ isConnected' = TRUE
  /\ failedInARow' = 0
  /\ lastStep' = [kind |-> "fixed_open"]
  /\ UNCHANGED <<mounted, isListening, ws, connectionAttempts, timers, effectWs,
                 firstAttempt, pausedFrom>>
  /\ UNCHANGED <<storeVars, clearVars, envVars>>

\* an onclose that would give up after MaxRetries failures in a row
FixedOnClose_GivesUp(i) ==
  /\ sockets[i].readyState \in {"connecting", "open"}
  /\ sockets' = [sockets EXCEPT ![i].readyState = "closed"]
  /\ isConnected' = FALSE
  /\ timers' = IF failedInARow < MaxRetries THEN timers (+) SetToBag({FixedTimer})
               ELSE timers
  /\ failedInARow' = IF sockets[i].readyState = "connecting" THEN failedInARow + 1
                     ELSE failedInARow
  /\ lastStep' = [kind |-> "fixed_close"]
  /\ UNCHANGED <<mounted, isListening, ws, connectionAttempts, effectWs, firstAttempt,
                 pausedFrom>>
  /\ UNCHANGED <<storeVars, clearVars, envVars>>

\* websocket.onclose (onerror, which precedes it on a failure, only calls
\* setIsConnected(false)): setIsConnected(false); setTimeout(connectWebSocket, 3000)
FixedOnClose(i) ==
  /\ sockets[i].readyState \in {"connecting", "open"}
  /\ sockets' = [sockets EXCEPT ![i].readyState = "closed"]
  /\ isConnected' = FALSE
  /\ timers' = timers (+) SetToBag({FixedTimer})
  /\ failedInARow' = IF sockets[i].readyState = "connecting" THEN failedInARow + 1
                     ELSE failedInARow
  /\ lastStep' = [kind |-> "fixed_close"]
  /\ UNCHANGED <<mounted, isListening, ws, connectionAttempts, effectWs, firstAttempt,
                 pausedFrom>>
  /\ UNCHANGED <<storeVars, clearVars, envVars>>

\* the timer fires: connectWebSocket()
FixedTimerFire(t, constructed) ==
  /\ BagIn(t, timers)
  /\ FixedConnect(constructed, timers (-) SetToBag({t}))
  /\ lastStep' = [kind |-> "fixed_timer", constructed |-> constructed]
  /\ UNCHANGED <<mounted, isListening, connectionAttempts, effectWs, firstAttempt,
                 pausedFrom>>
  /\ UNCHANGED <<storeVars, clearVars, envVars>>

\* ------------------------------------------------------- message handling
\* a handler that would treat a message it cannot decode as a lost connection
Deliver_DropsConnection(i, msg) ==
  /\ sockets[i].readyState = "open"
  /\ received' = Append(received, msg)
  /\ lastUpdate' = IF msg.json THEN Len(received) + 1 ELSE lastUpdate
  /\ stats' = IF msg.json THEN HandleMessage(msg).stats ELSE stats
  /\ allFlows' = IF msg.json THEN HandleMessage(msg).allFlows ELSE allFlows
  /\ isConnected' = IF msg.json THEN isConnected ELSE FALSE
  /\ lastStep' = [kind |-> "message"]
  /\ UNCHANGED <<mounted, isListening, ws, connectionAttempts, sockets, timers,
                 effectWs, firstAttempt, failedInARow, pausedFrom, clearVars>>

\* websocket.onmessage of the open socket i.  JSON.parse throws on text that
\* is not JSON and the catch only logs; otherwise setLastUpdate(new Date()) runs
\* before the dispatch on message.type.
\* When an updater throws during the render, no error boundary catches it:
\* React discards the render and unmounts the component, running the cleanup
\* of the last effect.  On an unmounted component the setters do nothing.
Deliver(i, msg) ==
  /\ sockets[i].readyState = "open"
  /\ received' = Append(received, msg)
  /\ IF mounted /\ UpdaterThrows(msg)
     THEN /\ mounted' = FALSE
          /\ sockets' = CloseSocket(sockets, effectWs)
          /\ lastStep' = [kind |-> "crash", shown |-> <<>>]
          /\ UNCHANGED <<stats, allFlows, lastUpdate>>
     ELSE /\ lastUpdate' = IF mounted /\ msg.json THEN Len(received) + 1 ELSE lastUpdate
          /\ stats' = IF mounted /\ msg.json THEN HandleMessage(msg).stats ELSE stats
          /\ allFlows' = IF mounted /\ msg.json THEN HandleMessage(msg).allFlows
                         ELSE allFlows
          /\ lastStep' = [kind |-> "message",
                          shown |-> IF mounted /\ msg.json THEN Batch(SetterStates(msg))
                                    ELSE <<>>]
          /\ UNCHANGED <<mounted, sockets>>
  /\ UNCHANGED <<isConnected, isListening, ws, connectionAttempts, timers, effectWs,
                 firstAttempt, failedInARow, pausedFrom, clearVars>>

LeakTypes == {Absent, "", "GPS_DATA"}
Timestamps == {1, 2}

\* the flows the backend may send as the n-th message
FlowsAt(n) == {Flow(n, lt, ts) : lt \in LeakTypes, ts \in Timestamps}

NewTraffic(f) == [json |-> TRUE, type |-> "new_traffic", data |-> f]
StatsUpdate(d) == [json |-> TRUE, type |-> "stats_update", data |-> d]

\* messages no rule of the protocol covers: text that is not JSON, an object
\* with an unrecognised type, an object without a type
NoData == [none |-> TRUE]
Garbage == [json |-> FALSE, type |-> Absent, data |-> NoData]
UnknownType == [json |-> TRUE, type |-> "ping", data |-> NoData]
MissingType == [json |-> TRUE, type |-> Absent, data |-> NoData]

\* full-state payloads the backend may send
SnapshotPayloads ==
  { [totalFlows |-> 0, totalLeaks |-> 0, recentFlows |-> <<>>, privacyLeaks |-> <<>>],
    [totalFlows |-> 7, totalLeaks |-> 1,
     recentFlows |-> <<Flow(907, Absent, 2), Flow(906, "GPS_DATA", 1)>>,
     privacyLeaks |-> <<Flow(906, "GPS_DATA", 1)>>],
    [totalFlows |-> 1, totalLeaks |-> 1,
     recentFlows |-> <<Flow(901, "TRACKING", 1)>>,
     privacyLeaks |-> <<Flow(901, "TRACKING", 1)>>] }

\* Spec: the n-th message is a leak flow, a snapshot, or text that does not decode
MessagesAt(n) ==
  {NewTraffic(Flow(n, "GPS_DATA", 1)),
   StatsUpdate([totalFlows |-> 1, totalLeaks |-> 1,
                recentFlows |-> <<Flow(901, "TRACKING", 1)>>,
                privacyLeaks |-> <<Flow(901, "TRACKING", 1)>>]),
   Garbage}

OnMessage ==
  /\ \E i \in DOMAIN sockets : \E msg \in MessagesAt(Len(received) + 1) : Deliver(i, msg)
  /\ UNCHANGED envVars

\* SpecStore: the n-th message is any flow with timestamp 1, such a flow
\* without its descriptive fields, any snapshot, or a message that does not decode
StoreMessagesAt(n) ==
  {NewTraffic(f) : f \in {g \in FlowsAt(n) : g.timestamp = 1}}
    \cup {NewTraffic(Incomplete(Flow(n, "GPS_DATA", 1)))}
    \cup {StatsUpdate(d) : d \in SnapshotPayloads}
    \cup {Garbage, UnknownType, MissingType}

StoreMessage ==
  /\ \E i \in DOMAIN sockets : \E msg \in StoreMessagesAt(Len(received) + 1) : Deliver(i, msg)
  /\ UNCHANGED envVars

\* SpecIngest: a stream of new_traffic events only.  Its first FreeLen flows
\* are arbitrary; from then on flow n repeats the leakType and timestamp of
\* flow n - FreeLen, so that long streams stay enumerable.
StreamAt(n) ==
  IF n <= FreeLen THEN FlowsAt(n)
  ELSE {Flow(n, received[n - FreeLen].data.leakType, received[n - FreeLen].data.timestamp)}

IngestMessage ==
  /\ \E i \in DOMAIN sockets : \E f \in StreamAt(Len(received) + 1) : Deliver(i, NewTraffic(f))
  /\ UNCHANGED envVars

\* ------------------------------------------------------------ the backend
\* The backend emits its next new_traffic event: one copy goes to every
\* connection that is open on the dashboard endpoint at that moment.
Emit ==
  /\ sent' = sent + 1
  /\ inflight' = inflight \cup {<<i, sent + 1>> : i \in {j \in DOMAIN sockets :
                                                      sockets[j].readyState = "open"}}
  /\ lastStep' = [kind |-> "emit"]
  /\ UNCHANGED <<connVars, storeVars, clearVars, mockPending>>

\* the copy of event n addressed to socket i arrives (copies arrive in order on
\* a connection): its onmessage runs
DeliverCopy(i, n) ==
  /\ <<i, n>> \in inflight
  /\ \A c \in inflight : c[1] = i => n <= c[2]
  /\ Deliver(i, NewTraffic(Flow(n, "GPS_DATA", 1)))
  /\ inflight' = inflight \ {<<i, n>>}
  /\ UNCHANGED <<mockPending, sent>>

\* ---------------------------------------------------------------- clear
\* clearData up to the await: the POST is sent
ClearData ==
  /\ mounted
  /\ clearsSent' = clearsSent + 1
  /\ clearPending' = clearPending + 1
  /\ lastStep' = [kind |-> "clear_request"]
  /\ UNCHANGED <<connVars, storeVars>>
  /\ UNCHANGED envVars

\* the response arrives with response.ok: setStats({...0, 0, [], []}); setAllFlows([])
ClearOk ==
  /\ clearPending > 0
  /\ clearPending' = clearPending - 1
  /\ stats' = IF mounted THEN ClearedStats ELSE stats
  /\ allFlows' = IF mounted THEN ClearedAllFlows ELSE allFlows
  /\ lastStep' = [kind |-> "clear_ok"]
  /\ UNCHANGED <<connVars, lastUpdate, received, clearsSent>>
  /\ UNCHANGED envVars

\* a failure path that would reset the local state all the same
ClearFailed_Resets ==
  /\ clearPending > 0
  /\ clearPending' = clearPending - 1
  /\ stats' = ClearedStats
  /\ allFlows' = ClearedAllFlows
  /\ lastStep' = [kind |-> "clear_failed"]
  /\ UNCHANGED <<connVars, lastUpdate, received, clearsSent>>
  /\ UNCHANGED envVars

\* the response is not ok, or fetch rejects: nothing but a log line
ClearFailed ==
  /\ clearPending > 0
  /\ clearPending' = clearPending - 1
  /\ lastStep' = [kind |-> "clear_failed"]
  /\ UNCHANGED <<connVars, storeVars, clearsSent>>
  /\ UNCHANGED envVars

\* generateMockData (the fixed-delay variant's button) up to the await: the
\* POST is sent
GenerateMockData ==
  /\ mounted
  /\ mockPending' = mockPending + 1
  /\ lastStep' = [kind |-> "mock_request"]
  /\ UNCHANGED <<connVars, storeVars, clearVars, sent, inflight>>

\* the response arrives with response.ok: console.log only
MockOk ==
  /\ mockPending > 0
  /\ mockPending' = mockPending - 1
  /\ lastStep' = [kind |-> "mock_ok"]
  /\ UNCHANGED <<connVars, storeVars, clearVars, sent, inflight>>

\* the response is not ok (nothing at all), or fetch rejects (console.error)
MockFailed ==
  /\ mockPending > 0
  /\ mockPending' = mockPending - 1
  /\ lastStep' = [kind |-> "mock_failed"]
  /\ UNCHANGED <<connVars, storeVars, clearVars, sent, inflight>>

\* ------------------------------------------------------- specifications
\* the counters a behaviour is explored up to
Within(maxSockets, maxAttempts, maxMsgs, maxClears) ==
  /\ Len(sockets) <= maxSockets
  /\ connectionAttempts <= maxAttempts
  /\ Len(received) <= maxMsgs
  /\ clearsSent <= maxClears

\* the whole client
Bounds == Within(MaxSockets, MaxAttempts, MaxMsgs, MaxClears)

Next ==
  \/ Mount /\ Bounds'
  \/ (\E i \in DOMAIN sockets : OnOpen(i)) /\ Bounds'
  \/ (\E i \in DOMAIN sockets : OnClose(i)) /\ Bounds'
  \/ (\E t \in BagToSet(timers) : TimerFire(t)) /\ Bounds'
  \/ Pause /\ Bounds'
  \/ Resume /\ Bounds'
  \/ OnMessage /\ Bounds'
  \/ ClearData /\ Bounds'
  \/ ClearOk /\ Bounds'
  \/ ClearFailed /\ Bounds'

Spec == Init /\ [][Next]_vars

\* the connection manager alone: the backend is silent and nothing is cleared
ConnBounds == Within(MaxConnSockets, MaxConnAttempts, 0, 0)

ConnNext ==
  \/ Mount /\ ConnBounds'
  \/ (\E i \in DOMAIN sockets : OnOpen(i)) /\ ConnBounds'
  \/ (\E i \in DOMAIN sockets : OnClose(i)) /\ ConnBounds'
  \/ (\E t \in BagToSet(timers) : TimerFire(t)) /\ ConnBounds'
  \/ Pause /\ ConnBounds'
  \/ Resume /\ ConnBounds'

SpecConn == Init /\ [][ConnNext]_vars

\* the connection manager while the user never pauses and the backend is silent
RetryBounds == Within(MaxRetrySockets, MaxRetryAttempts, 0, 0)

RetryNext ==
  \/ Mount /\ RetryBounds'
  \/ (\E i \in DOMAIN sockets : OnOpen(i)) /\ RetryBounds'
  \/ (\E i \in DOMAIN sockets : OnClose(i)) /\ RetryBounds'
  \/ (\E t \in BagToSet(timers) : TimerFire(t)) /\ RetryBounds'

SpecRetry == Init /\ [][RetryNext]_vars

\* the state after Mount and OnOpen(1): one open connection, nothing received
InitConnected ==
  /\ mounted = TRUE
  /\ isConnected = TRUE
  /\ isListening = TRUE
  /\ stats = EmptyStats
  /\ allFlows = <<>>
  /\ ws = 1
  /\ connectionAttempts = 0
  /\ lastUpdate = 0
  /\ sockets = <<[readyState |-> "open", cL |-> TRUE, cA |-> 0]>>
  /\ timers = EmptyBag
  /\ effectWs = 0
  /\ clearPending = 0
  /\ clearsSent = 0
  /\ received = <<>>
  /\ firstAttempt = 1
  /\ failedInARow = 0
  /\ pausedFrom = "none"
  /\ mockPending = 0
  /\ sent = 0
  /\ inflight = {}
  /\ lastStep = [kind |-> "open", attempts |-> 0]

\* the aggregation store under new_traffic events alone
IngestBounds == Within(1, 0, MaxEvents, 0)

IngestNext == IngestMessage /\ IngestBounds'

SpecIngest == InitConnected /\ [][IngestNext]_vars

\* the aggregation store under snapshots, new_traffic events and clears
StoreBounds == Within(1, 0, MaxStoreMsgs, MaxStoreClears)

StoreNext ==
  \/ StoreMessage /\ StoreBounds'
  \/ ClearData /\ StoreBounds'
  \/ ClearOk /\ StoreBounds'
  \/ ClearFailed /\ StoreBounds'

SpecStore == InitConnected /\ [][StoreNext]_vars

\* the aggregation store under snapshots of every shape: within and beyond the
\* caps, with a list left out, with counters that disagree
Oversized ==
  [totalFlows |-> FlowCap + 1, totalLeaks |-> LeakCap + 1,
   recentFlows |-> [k \in 1..(FlowCap + 1) |-> Flow(1000 + k, Absent, 1)],
   privacyLeaks |-> [k \in 1..(LeakCap + 1) |-> Flow(2000 + k, "GPS_DATA", 1)]]

OmitsPrivacyLeaks ==
  [totalFlows |-> 1, totalLeaks |-> 0,
   recentFlows |-> <<Flow(903, Absent, 1)>>, privacyLeaks |-> Undefined]

OmitsRecentFlows ==
  [totalFlows |-> 2, totalLeaks |-> 1,
   recentFlows |-> Undefined, privacyLeaks |-> <<Flow(904, "GPS_DATA", 1)>>]

MoreLeaksThanFlows ==
  [totalFlows |-> 0, totalLeaks |-> 1,
   recentFlows |-> <<>>, privacyLeaks |-> <<Flow(905, "GPS_DATA", 1)>>]

WithinCaps ==
  [totalFlows |-> 7, totalLeaks |-> 1,
   recentFlows |-> <<Flow(907, Absent, 2), Flow(906, "GPS_DATA", 1)>>,
   privacyLeaks |-> <<Flow(906, "GPS_DATA", 1)>>]

SnapshotMessagesAt(n) ==
  {StatsUpdate(d) : d \in {WithinCaps, Oversized, OmitsPrivacyLeaks, OmitsRecentFlows,
                          MoreLeaksThanFlows}}
    \cup {NewTraffic(Flow(n, "GPS_DATA", 1)), NewTraffic(Flow(n, Absent, 1))}

SnapshotMessage ==
  /\ \E i \in DOMAIN sockets : \E msg \in SnapshotMessagesAt(Len(received) + 1) :
        Deliver(i, msg)
  /\ UNCHANGED envVars

SnapshotBounds == Within(1, 0, MaxSnapMsgs, MaxSnapClears)

SnapshotNext ==
  \/ SnapshotMessage /\ SnapshotBounds'
  \/ ClearData /\ SnapshotBounds'
  \/ ClearOk /\ SnapshotBounds'
  \/ ClearFailed /\ SnapshotBounds'

SpecSnapshot == InitConnected /\ [][SnapshotNext]_vars

\* the client with its administrative requests: connection events, messages,
\* clear and generate-sample-data interleaved
AdminBounds ==
  /\ Within(MaxAdminSockets, MaxAdminAttempts, MaxAdminMsgs, MaxAdminClears)
  /\ mockPending <= MaxMocks

AdminNext ==
  \/ Mount /\ AdminBounds'
  \/ (\E i \in DOMAIN sockets : OnOpen(i)) /\ AdminBounds'
  \/ (\E i \in DOMAIN sockets : OnClose(i)) /\ AdminBounds'
  \/ (\E t \in BagToSet(timers) : TimerFire(t)) /\ AdminBounds'
  \/ OnMessage /\ AdminBounds'
  \/ ClearData /\ AdminBounds'
  \/ ClearOk /\ AdminBounds'
  \/ ClearFailed /\ AdminBounds'
  \/ GenerateMockData /\ AdminBounds'
  \/ MockOk /\ AdminBounds'
  \/ MockFailed /\ AdminBounds'

SpecAdmin == Init /\ [][AdminNext]_vars

\* the connection manager with the component's unmount
TeardownBounds == Within(MaxTeardownSockets, MaxTeardownAttempts, 0, 0)

AfterUnmount == ~mounted /\ lastStep.kind # "init"

TeardownNext ==
  \/ (lastStep.kind = "init" /\ Mount) /\ TeardownBounds'
  \/ (mounted /\ \E i \in DOMAIN sockets : OnOpen(i)) /\ TeardownBounds'
  \/ (mounted /\ \E i \in DOMAIN sockets : OnClose(i)) /\ TeardownBounds'
  \/ (mounted /\ \E t \in BagToSet(timers) : TimerFire(t)) /\ TeardownBounds'
  \/ Pause /\ TeardownBounds'
  \/ Resume /\ TeardownBounds'
  \/ Unmount /\ TeardownBounds'
  \/ (\E i \in DOMAIN sockets : OnOpenUnmounted(i)) /\ TeardownBounds'
  \/ (\E i \in DOMAIN sockets : OnCloseUnmounted(i)) /\ TeardownBounds'
  \/ (\E t \in BagToSet(timers) : TimerFireUnmounted(t)) /\ TeardownBounds'

SpecTeardown == Init /\ [][TeardownNext]_vars

\* the connection manager of the fixed-delay variant
FixedBounds ==
  /\ Len(sockets) <= MaxFixedSockets
  /\ failedInARow <= MaxFixedFailures

FixedNext ==
  \/ (\E c \in BOOLEAN : FixedMount(c)) /\ FixedBounds'
  \/ (\E i \in DOMAIN sockets : FixedOnOpen(i)) /\ FixedBounds'
  \/ (\E i \in DOMAIN sockets : FixedOnClose(i)) /\ FixedBounds'
  \/ (\E t \in BagToSet(timers) : \E c \in BOOLEAN : FixedTimerFire(t, c)) /\ FixedBounds'

SpecFixed == Init /\ [][FixedNext]_vars

\* the connection manager fed by a backend that sends every event to every
\* open connection
BroadcastBounds ==
  /\ Within(MaxCastSockets, MaxCastAttempts, 2 * MaxSent, 0)
  /\ sent <= MaxSent

BroadcastNext ==
  \/ Mount /\ BroadcastBounds'
  \/ (\E i \in DOMAIN sockets : OnOpen(i)) /\ BroadcastBounds'
  \/ (\E i \in DOMAIN sockets : OnClose(i)) /\ BroadcastBounds'
  \/ (\E t \in BagToSet(timers) : TimerFire(t)) /\ BroadcastBounds'
  \/ Emit /\ BroadcastBounds'
  \/ (\E c \in inflight : DeliverCopy(c[1], c[2])) /\ BroadcastBounds'

SpecBroadcast == Init /\ [][BroadcastNext]_vars

\* ================================================================ claims
LiveSockets == {i \in DOMAIN sockets : Live(sockets[i])}

\* the flows received so far, oldest first, and those among them that carry a leakType
ArrivedFlows == [i \in 1..Len(received) |-> received[i].data]
CarriesLeak(f) == f.leakType # Absent /\ f.leakType # ""
ArrivedLeaks == SelectSeq(ArrivedFlows, CarriesLeak)
LastReceived == received[Len(received)]

\* C1: at every moment at most one WebSocket created by the connection manager
\* is connecting or open.
C1_AtMostOneLiveConnection == Cardinality(LiveSockets) <= 1

\* C2: once 5 reconnect attempts in a row have failed while listening, and as
\* long as no attempt succeeds, no further connection is created.
C2_NoSixthAttempt ==
  [][(isListening /\ failedInARow >= MaxRetries /\ failedInARow' >= MaxRetries)
       => Len(sockets') = Len(sockets)]_vars

\* C3: no WebSocket is created by a step that leaves the client paused
\* (isListening false): neither a reconnect timer scheduled before the pause
\* nor the close caused by the pause leads to a new connection.
C3_NoConnectionWhilePaused ==
  [][~isListening' => Len(sockets') = Len(sockets)]_vars

\* C4: after a pause made while the connection attempt was in flight, and until
\* the resume, nothing of the connection state moves: the indicator and the
\* retry counter keep their values, no reconnect timer is scheduled or fired,
\* no socket is created and none opens.
C4_PausedWhileConnectingIsQuiet ==
  [][(pausedFrom = "connecting" /\ pausedFrom' = "connecting")
       => /\ UNCHANGED <<isConnected, connectionAttempts, timers>>
          /\ Len(sockets') = Len(sockets)
          /\ \A i \in DOMAIN sockets :
               sockets'[i].readyState = "open" => sockets[i].readyState = "open"]_vars

\* C5: after each event of any sequence of new_traffic events from the empty
\* state, the flow list has at most 100 entries and privacyLeaks at most 50.
C5_ListsWithinCaps ==
  /\ Len(allFlows) <= 100
  /\ Len(stats.privacyLeaks) <= 50

C5_Witness ==
  /\ lastStep.kind = "message"
  /\ Len(received) > 100
  /\ Len(ArrivedLeaks) > 50
  /\ Len(allFlows) = 100
  /\ Len(stats.privacyLeaks) = 50

\* C6: after N new_traffic events from the empty state, K of them carrying a
\* leakType, totalFlows = N and totalLeaks = K.
C6_CountersCountEvents ==
  /\ stats.totalFlows = Len(received)
  /\ stats.totalLeaks = Cardinality({i \in 1..Len(received) : CarriesLeak(received[i].data)})

C6_Witness ==
  /\ lastStep.kind = "message"
  /\ stats.totalFlows > 100
  /\ stats.totalLeaks > 50
  /\ stats.totalLeaks < stats.totalFlows
  /\ \E i \in 1..Len(received) : received[i].data.leakType = ""

\* C7: within the caps, the flow list holds the received flows in reverse
\* arrival order and privacyLeaks holds exactly the flows carrying a leakType,
\* in reverse arrival order, whatever their timestamps.
C7_ReverseArrivalOrder ==
  /\ Len(ArrivedFlows) <= 100 => allFlows = Reverse(ArrivedFlows)
  /\ Len(ArrivedLeaks) <= 50 => stats.privacyLeaks = Reverse(ArrivedLeaks)

\* three events, only the 2nd a leak, timestamps 2, 1, 2
C7_Witness ==
  /\ Len(received) = 3
  /\ <<received[1].data.leakType, received[2].data.leakType, received[3].data.leakType>>
       = <<Absent, "GPS_DATA", Absent>>
  /\ <<received[1].data.timestamp, received[2].data.timestamp, received[3].data.timestamp>>
       = <<2, 1, 2>>
  /\ stats.totalFlows = 3
  /\ stats.totalLeaks = 1
  /\ allFlows = <<received[3].data, received[2].data, received[1].data>>
  /\ stats.privacyLeaks = <<received[2].data>>

\* C8: once more than 100 events have arrived the flow list is exactly the 100
\* most recently arrived flows, newest first; once more than 50 leak flows have
\* arrived privacyLeaks is exactly the 50 most recently arrived of them.
C8_EvictsOldest ==
  /\ Len(ArrivedFlows) > 100 =>
       allFlows = [k \in 1..100 |-> ArrivedFlows[Len(ArrivedFlows) + 1 - k]]
  /\ Len(ArrivedLeaks) > 50 =>
       stats.privacyLeaks = [k \in 1..50 |-> ArrivedLeaks[Len(ArrivedLeaks) + 1 - k]]

\* events 1..105 leave 105..6
C8_Witness ==
  /\ Len(received) = 105
  /\ Len(ArrivedLeaks) > 50
  /\ Len(ArrivedLeaks) < 105
  /\ allFlows[1].flowId = 105
  /\ allFlows[100].flowId = 6
  /\ \A k \in 1..100 : allFlows[k].flowId = 106 - k

\* C9: right after a stats_update is applied, stats is the payload and the flow
\* list is the payload's recentFlows: nothing of the earlier state is left.
C9_SnapshotReplaces ==
  (lastStep.kind = "message" /\ LastReceived.type = "stats_update")
    => /\ stats.totalFlows = LastReceived.data.totalFlows
       /\ stats.totalLeaks = LastReceived.data.totalLeaks
       /\ stats.recentFlows = LastReceived.data.recentFlows
       /\ stats.privacyLeaks = LastReceived.data.privacyLeaks
       /\ allFlows = LastReceived.data.recentFlows

\* an empty snapshot applied right after a leak flow had been recorded
C9_Witness ==
  /\ lastStep.kind = "message"
  /\ Len(received) >= 2
  /\ clearsSent = 0
  /\ received[Len(received) - 1].type = "new_traffic"
  /\ CarriesLeak(received[Len(received) - 1].data)
  /\ LastReceived.type = "stats_update"
  /\ LastReceived.data.totalFlows = 0
  /\ stats.privacyLeaks = <<>>
  /\ allFlows = <<>>

\* C10: right after a clear request succeeded, totalFlows = 0, totalLeaks = 0,
\* recentFlows = [], privacyLeaks = [] and the flow list is empty.
C10_ClearResets ==
  lastStep.kind = "clear_ok"
    => /\ stats = [totalFlows |-> 0, totalLeaks |-> 0, recentFlows |-> <<>>, privacyLeaks |-> <<>>]
       /\ allFlows = <<>>

\* the only clear so far succeeded after flows had been received
C10_Witness ==
  /\ lastStep.kind = "clear_ok"
  /\ clearsSent = 1
  /\ received # <<>>
  /\ LastReceived.type = "new_traffic"
  /\ CarriesLeak(LastReceived.data)

\* ------------------------------------------------ rejected messages
\* a step of onmessage, and the message it handled
MessageStep == Len(received') = Len(received) + 1
Handled == received'[Len(received')]

\* a new_traffic event whose data lacks one of flowId, method, host, url, status
StructurallyInvalid(msg) ==
  /\ msg.json
  /\ msg.type = "new_traffic"
  /\ msg.data.method = Absent

\* text that does not parse, or an object whose type is missing or unrecognised
Undispatched(msg) == ~msg.json \/ msg.type \notin {"stats_update", "new_traffic"}

\* C11: a message that parses but is structurally invalid (here a new_traffic
\* event whose data lacks its method) is rejected before any mutation: the
\* aggregation state and the flow list are exactly as before it.
C11_InvalidMessageRejected ==
  [][(MessageStep /\ StructurallyInvalid(Handled)) => UNCHANGED <<stats, allFlows>>]_vars

\* C12: a message that cannot be parsed, or that parses with a missing or
\* unrecognised type, changes nothing: the aggregation state, the flow list and
\* the last-update timestamp are all as before it.
C12_UndispatchedMessageDropped ==
  [][(MessageStep /\ Undispatched(Handled))
       => UNCHANGED <<stats, allFlows, lastUpdate>>]_vars

ApplyEvent(st, msg) ==
  IF ~msg.json THEN st
  ELSE IF msg.type = "stats_update"
    THEN [stats |-> msg.data, allFlows |-> msg.data.recentFlows]
  ELSE IF msg.type = "new_traffic"
    THEN LET f == msg.data
             leak == f.leakType \notin {Absent, ""}
             flows == <<f>> \o st.allFlows
             leaks == IF leak THEN <<f>> \o st.stats.privacyLeaks
                      ELSE st.stats.privacyLeaks
         IN [stats |-> [totalFlows |-> st.stats.totalFlows + 1,
                        totalLeaks |-> st.stats.totalLeaks + (IF leak THEN 1 ELSE 0),
                        recentFlows |-> st.stats.recentFlows,
                        privacyLeaks |-> SubSeq(leaks, 1, Min(Len(leaks), LeakCap))],
             allFlows |-> SubSeq(flows, 1, Min(Len(flows), FlowCap))]
  ELSE st

RECURSIVE FoldOfFirst(_)
FoldOfFirst(k) ==
  IF k = 0 THEN [stats |-> EmptyStats, allFlows |-> <<>>]
  ELSE ApplyEvent(FoldOfFirst(k - 1), received[k])

\* C14: messages are applied in wire order, one at a time: as long as nothing
\* was cleared, the state after k messages is the fold of the per-message
\* update over the first k messages.
C14_StateIsFoldOfWire ==
  clearsSent = 0 => [stats |-> stats, allFlows |-> allFlows] = FoldOfFirst(Len(received))

\* a snapshot carrying a flow, then two events, the last one a leak
C14_Witness ==
  /\ clearsSent = 0
  /\ Len(received) = 3
  /\ received[1].json /\ received[1].type = "stats_update"
  /\ received[1].data.recentFlows # <<>>
  /\ received[2].json /\ received[2].type = "new_traffic"
  /\ received[3].json /\ received[3].type = "new_traffic"
  /\ received[3].data.leakType = "GPS_DATA"
  /\ Len(allFlows) = 3

\* ------------------------------------------------ pause, resume, retries
\* C15: right after an explicit pause taken while connected or connecting, no
\* socket is connecting or open any more and the indicator shows not connected.
C15_PauseClosesEveryConnection ==
  (lastStep.kind = "pause" /\ pausedFrom \in {"connected", "connecting"})
    => (LiveSockets = {} /\ ~isConnected)

\* C16: right after an explicit resume the retry counter is 0 and exactly one
\* connection attempt was started by it, also when the automatic retries had
\* been used up before the resume.
C16_ResumeStartsAfresh ==
  lastStep.kind = "resume"
    => /\ connectionAttempts = 0
       /\ Len(sockets) = lastStep.sockets + 1
       /\ sockets[Len(sockets)].readyState = "connecting"
       /\ ws = Len(sockets)

\* a resume taken when the counter had reached the retry limit
C16_Witness ==
  /\ lastStep.kind = "resume"
  /\ lastStep.attempts >= MaxRetries
  /\ isListening

\* C17: every increment of the retry counter goes with exactly one new
\* connection attempt: a step that raises the counter by one constructs
\* exactly one socket.
C17_OneAttemptPerIncrement ==
  [][connectionAttempts' = connectionAttempts + 1
       => Len(sockets') = Len(sockets) + 1]_vars

\* the reconnect timers a step schedules
Scheduled == {t \in BagToSet(timers') : CopiesIn(t, timers') > CopiesIn(t, timers)}

\* C18: a reconnect scheduled while the retry counter is k waits
\* min(1000 * 2^k, 30000) ms.
C18_DelayFollowsCounter ==
  [][\A t \in Scheduled : t.delay = Min(BaseDelay * 2^connectionAttempts, MaxDelay)]_vars

\* C19: right after a connection attempt succeeded the retry counter is 0.
C19_OpenResetsCounter == lastStep.kind = "open" => connectionAttempts = 0

\* a socket opened when the counter stood above 0
C19_Witness ==
  /\ lastStep.kind = "open"
  /\ lastStep.attempts > 0
  /\ isConnected

\* C20: the retry counter is 0 in every paused state.
C20_PausedCounterIsZero == ~isListening => connectionAttempts = 0

\* ------------------------------------------------ snapshots
\* C21: the caps hold in every reachable state, also right after a snapshot
\* whose lists exceed them: at most 100 flows and at most 50 leaks.
C21_SnapshotTruncatedToCaps ==
  /\ Len(allFlows) <= FlowCap
  /\ stats.recentFlows # Undefined => Len(stats.recentFlows) <= FlowCap
  /\ stats.privacyLeaks # Undefined => Len(stats.privacyLeaks) <= LeakCap

\* C22: after a snapshot that leaves out recentFlows or privacyLeaks, every
\* incremental event, also one carrying a leakType, is applied normally and
\* without error: it is counted and becomes the head of the flow list.
C22_EventsApplyAfterPartialSnapshot ==
  [][(MessageStep /\ mounted /\ Handled.json /\ Handled.type = "new_traffic")
       => /\ mounted'
          /\ stats'.totalFlows = stats.totalFlows + 1
          /\ allFlows' # <<>> /\ Head(allFlows') = Handled.data]_vars

\* the step handles a snapshot / is the reset of a successful clear
SnapshotStep == MessageStep /\ Handled.json /\ Handled.type = "stats_update"
ResetStep == lastStep'.kind = "clear_ok"

NonDecreasing ==
  /\ stats'.totalFlows >= stats.totalFlows
  /\ stats'.totalLeaks >= stats.totalLeaks

\* C23 as stated: between two resets totalFlows and totalLeaks never decrease
\* from one state to the next, whatever incremental and snapshot events arrive.
C23_CountersNeverDecrease == [][~ResetStep => NonDecreasing]_vars

\* C23 amended: between two resets the counters never decrease across an
\* incremental event (or any step that is not a snapshot); a snapshot installs
\* the counters it carries, whatever they were before.
C23_CountersNeverDecreaseBetweenSnapshots ==
  [][/\ (~ResetStep /\ ~SnapshotStep) => NonDecreasing
     /\ (SnapshotStep /\ mounted)
          => /\ stats'.totalFlows = Handled.data.totalFlows
             /\ stats'.totalLeaks = Handled.data.totalLeaks]_vars

\* a snapshot with counters (7, 1), then a flow without and a flow with a leak
C23_Witness ==
  /\ Len(received) = 3
  /\ received[1].type = "stats_update" /\ received[1].data = WithinCaps
  /\ received[2].type = "new_traffic" /\ received[3].type = "new_traffic"
  /\ clearsSent = 0
  /\ stats.totalFlows = 9
  /\ stats.totalLeaks = 2

\* C24 as stated: totalLeaks <= totalFlows in every reachable state.
C24_LeaksAtMostFlows == stats.totalLeaks <= stats.totalFlows

\* every snapshot received so far carried totalLeaks <= totalFlows
SnapshotsAgree ==
  \A k \in 1..Len(received) :
    (received[k].json /\ received[k].type = "stats_update")
      => received[k].data.totalLeaks <= received[k].data.totalFlows

\* C24 amended: totalLeaks <= totalFlows holds after any sequence of incremental
\* events, clears and snapshots whose own counters satisfy it.
C24_LeaksAtMostFlowsGivenSnapshotsAgree ==
  SnapshotsAgree => stats.totalLeaks <= stats.totalFlows

\* a leak, a successful clear, then a snapshot followed by another leak
C24_Witness ==
  /\ SnapshotsAgree
  /\ Len(received) = 3
  /\ received[1].type = "new_traffic"
  /\ received[2].type = "stats_update"
  /\ received[3].type = "new_traffic"
  /\ clearsSent = 1 /\ clearPending = 0
  /\ stats.totalLeaks >= 2

C26_FailedAdminRequestChangesNothing ==
  [][lastStep'.kind \in {"clear_failed", "mock_failed", "mock_ok"}
       => /\ UNCHANGED <<stats, allFlows, lastUpdate>>
          /\ UNCHANGED <<isConnected, isListening, connectionAttempts, ws, sockets, timers>>
          /\ clearsSent' = clearsSent
          /\ clearPending' <= clearPending
          /\ mockPending' <= mockPending]_vars

\* a clear just failed while flows are held and a connection is live
C26_Witness ==
  /\ lastStep.kind = "clear_failed"
  /\ allFlows # <<>>
  /\ stats.totalFlows > 0
  /\ LiveSockets # {}

\* ------------------------------------------------ teardown
\* C27: once the component is torn down, no socket the manager constructed is
\* connecting or open.
C27_TeardownClosesEveryConnection == AfterUnmount => LiveSockets = {}

\* ------------------------------------------------ the fixed-delay variant
\* the step is a close event / a connectWebSocket whose constructor threw
FixedCloseStep == lastStep'.kind = "fixed_close"
FixedThrowStep == lastStep'.kind \in {"fixed_mount", "fixed_timer"} /\ ~lastStep'.constructed
FixedFireStep == lastStep'.kind = "fixed_timer"

\* the timers left once the fired one, if any, is taken out
Remaining == IF FixedFireStep THEN timers (-) SetToBag({FixedTimer}) ELSE timers

\* C28: in the fixed-delay variant every close of the connection and every
\* failure to construct it schedules exactly one reconnect, 3 s later, however
\* many attempts have failed before; nothing else schedules one.
C28_FixedDelayAlwaysReconnects ==
  [][/\ \A t \in BagToSet(timers') : t.delay = 3000
     /\ (FixedCloseStep \/ FixedThrowStep)
          => BagCardinality(timers') = BagCardinality(Remaining) + 1
     /\ ~(FixedCloseStep \/ FixedThrowStep)
          => BagCardinality(timers') = BagCardinality(Remaining)]_vars

\* a reconnect is pending after more failures in a row than the other
\* variant's retry limit
C28_Witness ==
  /\ lastStep.kind = "fixed_close"
  /\ failedInARow > MaxRetries
  /\ BagCardinality(timers) = 1

\* ------------------------------------------------ the connection indicator
OpenSockets == {i \in DOMAIN sockets : sockets[i].readyState = "open"}

\* C29: in every reachable state isConnected is true exactly when a socket the
\* manager constructed is open; so it is never true while paused and never
\* false while an open socket is still delivering events.
C29_IndicatorMatchesOpenSocket ==
  /\ isConnected <=> OpenSockets # {}
  /\ isConnected => isListening

\* ------------------------------------------------ at most once
\* C30: each new_traffic event the backend sends is applied at most once, also
\* across reconnects: with no snapshot and no reset, totalFlows never exceeds
\* the number of events sent.
C30_EachEventAppliedAtMostOnce == stats.totalFlows <= sent

\* ------------------------------------------------ a reconnect that succeeds
\* a step in which a socket opens while the retry counter is above zero
ReconnectOpens == connectionAttempts > 0 /\ lastStep'.kind = "open"

\* C31: when a reconnect attempt succeeds with a non-zero retry counter, the
\* step that resets the counter closes no socket and constructs none: the
\* socket that opened is open afterwards, every other socket is as it was.
C31_OpenLeavesConnectionsAlone ==
  [][ReconnectOpens =>
       /\ Len(sockets') = Len(sockets)
       /\ \A i \in DOMAIN sockets :
            \/ sockets'[i] = sockets[i]
            \/ /\ sockets[i].readyState = "connecting"
               /\ sockets'[i] = [sockets[i] EXCEPT !.readyState = "open"]]_vars

\* ------------------------------------------------ the two flow lists
\* C32: after any sequence of snapshots, incremental events and clears the
\* displayed flow list allFlows equals the list kept in stats.recentFlows.
C32_FlowListsAgree == allFlows = stats.recentFlows

====
